---- MODULE Spec2Model ----
(***************************************************************************)
(* Phishing URL detector: the heuristic rule scorer, the two predictors    *)
(* (backend/app/predictor.py, backend/app/main.py) and the feature         *)
(* extractors (backend/app/features.py, ml_engine/feature_extractor.py,    *)
(* backend/app/advanced_feature_extractor.py,                              *)
(* ml_engine/advanced_feature_extractor.py), the explanation of a          *)
(* prediction (EnhancedPredictor.explain), the lazily built predictor of   *)
(* get_predictor() and the account endpoints (backend/app/auth.py,         *)
(* auth_routes.py, database.py).                                           *)
(*                                                                         *)
(* Four specifications: Spec follows one request; SessionSpec a series of  *)
(* extract_features calls on one extractor; SingletonSpec the threads that *)
(* call get_predictor(); AuthSpec the account endpoints.                   *)
(*                                                                         *)
(* Representation.  A URL is a TLA+ string; characters are its substrings  *)
(* of length one.  A Python float is a fixed-point integer in millionths   *)
(* (One = 1.0); every probability the model draws is a multiple of ten     *)
(* millionths, so that 0.6*m + 0.4*h is exact.  The URLs drawn are ASCII   *)
(* and hold no blank, tab, newline or ';'.                                 *)
(***************************************************************************)
EXTENDS Integers, Sequences, FiniteSets, TLC

VARIABLES
    url,        \* the URL of the request being handled
    call,       \* the entry point that served it ("idle" before the call)
    heur,       \* outcome of a direct _apply_heuristics(url)
    vec,        \* outcome of a direct extract_features(url)
    result,     \* dict returned by predict(url)
    frame,      \* locals of that predict call when it returned
    explained,  \* dict returned by EnhancedPredictor.explain(url)
    extractor,  \* fields of the AdvancedFeatureExtractor a session calls
    first,      \* the vector its first call on each URL returned
    last,       \* its latest call: the URL and the vector returned
    predictor_instance, \* predictor.py: the module global _predictor_instance
    constructed,        \* the PhishingPredictor objects constructed so far
    pc,         \* position of each thread inside get_predictor()
    got,        \* what get_predictor() returned to each thread
    engine,     \* the database behind DATABASE_URL
    users,      \* rows of the users table
    sequence,   \* last value of the id sequence (PostgreSQL)
    issued,     \* access tokens login has handed out
    auth        \* outcome of the latest get_current_active_user

requestVars == <<url, call, heur, vec, result, frame, explained>>
sessionVars == <<extractor, first, last>>
singletonVars == <<predictor_instance, constructed, pc, got>>
authVars == <<engine, users, sequence, issued, auth>>
vars == <<requestVars, sessionVars, singletonVars, authVars>>

(***************************************************************************)
(* Bounds of the model.                                                    *)
(***************************************************************************)
\* the long path is MaxPad blocks of ten characters (a URL of more than 100)
MaxPad == 10
\* model outputs are drawn from the grid 0, 1/ProbSteps, ..., 1
ProbSteps == 10

(***************************************************************************)
(* Fixed-point numbers.                                                    *)
(***************************************************************************)
One == 10^6
Pct(n) == n * (One \div 100)
Min(a, b) == IF a <= b THEN a ELSE b

\* Body(v) with v evaluated once: the assignment of a local variable
Bind(v, Body(_)) == CHOOSE r \in {Body(x) : x \in {v}} : TRUE

(***************************************************************************)
(* Python str operations.                                                  *)
(***************************************************************************)
UpperStr == "ABCDEFGHIJKLMNOPQRSTUVWXYZ"
LowerStr == "abcdefghijklmnopqrstuvwxyz"
DigitStr == "0123456789"

CharAt(s, i) == SubSeq(s, i, i)
CharsOf(s) == {CharAt(s, i) : i \in 1..Len(s)}
UpperChars == CharsOf(UpperStr)
LowerChars == CharsOf(LowerStr)
DigitChars == CharsOf(DigitStr)

\* c.isdigit(), c.isalpha(), c.isalnum() on ASCII
IsDigit(c) == c \in DigitChars
IsAlpha(c) == c \in UpperChars \cup LowerChars
IsAlnum(c) == IsDigit(c) \/ IsAlpha(c)

LowerChar(c) ==
    IF c \in UpperChars
    THEN CharAt(LowerStr, CHOOSE i \in 1..26 : CharAt(UpperStr, i) = c)
    ELSE c

\* s.lower(), character by character (the recursion halves the string)
RECURSIVE Lower(_)
Lower(s) ==
    IF Len(s) = 0 THEN ""
    ELSE IF Len(s) = 1 THEN LowerChar(s)
    ELSE Lower(SubSeq(s, 1, Len(s) \div 2))
            \o Lower(SubSeq(s, Len(s) \div 2 + 1, Len(s)))

\* k in s
Contains(s, k) ==
    \E i \in 1..(Len(s) - Len(k) + 1) : SubSeq(s, i, i + Len(k) - 1) = k

\* s.startswith(k), s.endswith(k)
StartsWith(s, k) == Len(s) >= Len(k) /\ SubSeq(s, 1, Len(k)) = k
EndsWith(s, k) == Len(s) >= Len(k) /\ SubSeq(s, Len(s) - Len(k) + 1, Len(s)) = k

\* s.count(c) for a single character c
Count(s, c) == Cardinality({i \in 1..Len(s) : CharAt(s, i) = c})

\* s.find(c): the first index of character c in s, 0 when absent
Find(s, c) ==
    IF \E i \in 1..Len(s) : CharAt(s, i) = c
    THEN CHOOSE i \in 1..Len(s) :
            CharAt(s, i) = c /\ \A j \in 1..(i - 1) : CharAt(s, j) # c
    ELSE 0

\* the first index of any character of cs in s at or after from, Len(s)+1 when none
FindAny(s, cs, from) ==
    IF \E i \in from..Len(s) : CharAt(s, i) \in cs
    THEN CHOOSE i \in from..Len(s) :
            CharAt(s, i) \in cs /\ \A j \in from..(i - 1) : CharAt(s, j) \notin cs
    ELSE Len(s) + 1

\* s.rfind(c): the last index of character c in s, 0 when absent
RFind(s, c) ==
    IF \E i \in 1..Len(s) : CharAt(s, i) = c
    THEN CHOOSE i \in 1..Len(s) :
            CharAt(s, i) = c /\ \A j \in (i + 1)..Len(s) : CharAt(s, j) # c
    ELSE 0

RECURSIVE Repeat(_, _)
Repeat(s, n) == IF n = 0 THEN "" ELSE s \o Repeat(s, n - 1)

(***************************************************************************)
(* re.search of a dotted quad.  octets groups of one to three digits       *)
(* joined by dots, starting at index i.  strict = FALSE is                 *)
(* \d{1,3}\.\d{1,3}\.\d{1,3}\.\d{1,3}; strict = TRUE bounds each group by  *)
(* [0-9]|[1-9][0-9]|1[0-9]{2}|2[0-4][0-9]|25[0-5].                         *)
(***************************************************************************)
DigitVal(c) == (CHOOSE i \in 1..10 : CharAt(DigitStr, i) = c) - 1

AllDigits(s, i, n) ==
    /\ i + n - 1 <= Len(s)
    /\ \A j \in i..(i + n - 1) : IsDigit(CharAt(s, j))

StrictOctet(s, i, n) ==
    CASE n = 1 -> TRUE
      [] n = 2 -> CharAt(s, i) # "0"
      [] n = 3 ->
            \/ CharAt(s, i) = "1"
            \/ /\ CharAt(s, i) = "2"
               /\ \/ DigitVal(CharAt(s, i + 1)) <= 4
                  \/ CharAt(s, i + 1) = "5" /\ DigitVal(CharAt(s, i + 2)) <= 5

RECURSIVE MatchQuad(_, _, _, _)
MatchQuad(s, i, octets, strict) ==
    \E n \in 1..3 :
        /\ AllDigits(s, i, n)
        /\ strict => StrictOctet(s, i, n)
        /\ \/ octets = 1
           \/ /\ i + n <= Len(s)
              /\ CharAt(s, i + n) = "."
              /\ MatchQuad(s, i + n + 1, octets - 1, strict)

SearchQuad(s, strict) ==
    \E i \in 1..Len(s) : IsDigit(CharAt(s, i)) /\ MatchQuad(s, i, 4, strict)

(***************************************************************************)
(* urllib.parse.urlparse, as far as the program reads it: netloc, path     *)
(* and query, and the ValueError on an unbalanced '[' or ']' in netloc.    *)
(***************************************************************************)
SchemeChars == UpperChars \cup LowerChars \cup DigitChars \cup {"+", "-", "."}

\* the index of the ':' that ends a scheme, 0 when the URL has no scheme
SchemeEnd(u) ==
    LET i == Find(u, ":")
    IN  IF /\ i > 1
           /\ IsAlpha(CharAt(u, 1))
           /\ \A j \in 1..(i - 1) : CharAt(u, j) \in SchemeChars
        THEN i ELSE 0

UrlSplit(u) ==
    LET rest == SubSeq(u, SchemeEnd(u) + 1, Len(u))
        hasNetloc == StartsWith(rest, "//")
        delim == IF hasNetloc THEN FindAny(rest, {"/", "?", "#"}, 3) ELSE 1
        netloc == IF hasNetloc THEN SubSeq(rest, 3, delim - 1) ELSE ""
        after == SubSeq(rest, delim, Len(rest))
        hash == Find(after, "#")
        noFrag == IF hash > 0 THEN SubSeq(after, 1, hash - 1) ELSE after
        qm == Find(noFrag, "?")
    IN  [ netloc |-> netloc,
          path   |-> IF qm > 0 THEN SubSeq(noFrag, 1, qm - 1) ELSE noFrag,
          query  |-> IF qm > 0 THEN SubSeq(noFrag, qm + 1, Len(noFrag)) ELSE "" ]

UrlParseRaises(u) ==
    LET netloc == UrlSplit(u).netloc
    IN  Contains(netloc, "[") # Contains(netloc, "]")

(***************************************************************************)
(* Lists and sums.                                                         *)
(***************************************************************************)
\* str.split(c) for a single character c
SplitOn(s, c) ==
    Bind({i \in 1..Len(s) : CharAt(s, i) = c}, LAMBDA cuts :
        [k \in 1..(Cardinality(cuts) + 1) |->
            SubSeq(s,
                   IF k = 1 THEN 1
                   ELSE 1 + CHOOSE q \in cuts : Cardinality({r \in cuts : r < q}) = k - 2,
                   IF k = Cardinality(cuts) + 1 THEN Len(s)
                   ELSE (CHOOSE q \in cuts : Cardinality({r \in cuts : r < q}) = k - 1) - 1)])

\* '.'.join(parts[i..j]) (1-based, inclusive; "" when the range is empty)
RECURSIVE JoinDots(_, _, _)
JoinDots(parts, i, j) ==
    IF i > j THEN ""
    ELSE IF i = j THEN parts[i]
    ELSE parts[i] \o "." \o JoinDots(parts, i + 1, j)

\* the number of indices of s whose character satisfies Test
CountIf(s, Test(_)) == Cardinality({i \in 1..Len(s) : Test(CharAt(s, i))})

(***************************************************************************)
(* Shannon entropy, in millionths of a bit.  Log2Table[k] is log2(k) in    *)
(* millionths, for the lengths the model reaches.                          *)
(***************************************************************************)
Log2Table ==
    <<
       0, 1000000, 1584963, 2000000, 2321928, 2584963, 2807355, 3000000,
       3169925, 3321928, 3459432, 3584963, 3700440, 3807355, 3906891, 4000000,
       4087463, 4169925, 4247928, 4321928, 4392317, 4459432, 4523562, 4584963,
       4643856, 4700440, 4754888, 4807355, 4857981, 4906891, 4954196, 5000000,
       5044394, 5087463, 5129283, 5169925, 5209453, 5247928, 5285402, 5321928,
       5357552, 5392317, 5426265, 5459432, 5491853, 5523562, 5554589, 5584963,
       5614710, 5643856, 5672425, 5700440, 5727920, 5754888, 5781360, 5807355,
       5832890, 5857981, 5882643, 5906891, 5930737, 5954196, 5977280, 6000000,
       6022368, 6044394, 6066089, 6087463, 6108524, 6129283, 6149747, 6169925,
       6189825, 6209453, 6228819, 6247928, 6266787, 6285402, 6303781, 6321928,
       6339850, 6357552, 6375039, 6392317, 6409391, 6426265, 6442943, 6459432,
       6475733, 6491853, 6507795, 6523562, 6539159, 6554589, 6569856, 6584963,
       6599913, 6614710, 6629357, 6643856, 6658211, 6672425, 6686501, 6700440,
       6714246, 6727920, 6741467, 6754888, 6768184, 6781360, 6794416, 6807355,
       6820179, 6832890, 6845490, 6857981, 6870365, 6882643, 6894818, 6906891,
       6918863, 6930737, 6942515, 6954196, 6965784, 6977280, 6988685, 7000000,
       7011227, 7022368, 7033423, 7044394, 7055282, 7066089, 7076816, 7087463,
       7098032, 7108524, 7118941, 7129283, 7139551, 7149747, 7159871, 7169925,
       7179909, 7189825, 7199672, 7209453, 7219169, 7228819, 7238405, 7247928,
       7257388, 7266787, 7276124, 7285402, 7294621, 7303781, 7312883, 7321928
    >>

Log2(k) == Log2Table[k]

\* the loop over the character counts: sum of count * (log2(length) - log2(count))
RECURSIVE EntropyLoop(_, _)
EntropyLoop(text, chars) ==
    IF chars = {} THEN 0
    ELSE Bind(CHOOSE c \in chars : TRUE, LAMBDA c :
         Bind(Count(text, c), LAMBDA count :
            count * (Log2(Len(text)) - Log2(count))
                + EntropyLoop(text, chars \ {c})))

\* the sum without the division by the length
ShannonEntropy_Unnormalised(text) ==
    IF text = "" THEN 0 ELSE EntropyLoop(text, CharsOf(text))

\* -sum(p * log2(p)) with p = count / len(text), over the distinct characters
ShannonEntropy(text) ==
    IF text = "" THEN 0 ELSE EntropyLoop(text, CharsOf(text)) \div Len(text)

(***************************************************************************)
(* The URLs of the model.                                                  *)
(***************************************************************************)
LongPath == "/" \o Repeat("aaaaaaaaaa", MaxPad)

Schemes == {"http://", "https://"}

Hosts ==
    { "example.com", "www.google.com", "paypal.com", "PayPal.com",
      "paypal.com.fake.com", "paypal.com.google.com.evil.tk",
      "192.168.1.1", "secure-login-verify.com", "a-b-c-d.xyz", "evil.tk",
      "user@bank.co.uk", "login.example.co.uk" }

Tails ==
    { "", "/", ":443", ":443/", "/login", "/x.tk", "/?q=paypal.com", LongPath }

Urls ==
    {s \o h \o t : s \in Schemes, h \in Hosts, t \in Tails}
    \cup { "", "???", "evil.tk", "HTTPS://example.com", "http://[::1",
           "http://a.com/https://b.com",
           "aaaa", "abab", "http://999.1.1.999/", "http://300.300.300.300/",
           "https://[secure-login/verify", "http://evil].tk/x?a=1&b=2",
           "http://LOGIN.example.com/login/login",
           "http://google2023.com/", "http://abc.com/2022",
           "http://abcdefghijklmnopqrstu.com/",
           "http://abcdefghijklmnopqrstu.com/2021", "http://01.02.03.04/" }

(***************************************************************************)
(* PhishingPredictor._apply_heuristics                                     *)
(***************************************************************************)
phishing_keywords ==
    << "verify", "account", "update", "secure", "login", "signin",
       "banking", "confirm", "suspended", "locked", "unusual",
       "activity", "alert", "security", "notification" >>

heur_suspicious_tlds == << ".tk", ".ml", ".ga", ".cf", ".gq", ".xyz", ".top" >>

legitimate_domains ==
    << "google.com", "facebook.com", "amazon.com", "paypal.com",
       "microsoft.com", "apple.com", "netflix.com", "instagram.com",
       "twitter.com", "linkedin.com", "github.com", "bankofamerica.com",
       "chase.com", "wellsfargo.com", "citibank.com" >>

login_keywords == << "login", "signin", "account", "secure" >>

\* the count with every occurrence of a keyword counted
KeywordCount_Occurrences(keywords, text) ==
    Cardinality({ip \in (1..Len(keywords)) \X (1..Len(text)) :
        SubSeq(text, ip[2], Min(Len(text), ip[2] + Len(keywords[ip[1]]) - 1))
            = keywords[ip[1]]})

\* sum(1 for keyword in keywords if keyword in text)
KeywordCount(keywords, text) ==
    Cardinality({i \in 1..Len(keywords) : Contains(text, keywords[i])})

\* if count >= 3: +0.4  elif count >= 2: +0.25  elif count >= 1: +0.1
KeywordTier(keyword_count) ==
    IF keyword_count >= 3 THEN Pct(40)
    ELSE IF keyword_count >= 2 THEN Pct(25)
    ELSE IF keyword_count >= 1 THEN Pct(10)
    ELSE 0

\* any(url_lower.endswith(tld) for tld in suspicious_tlds)
HeurSuspiciousTld(url_lower) ==
    \E i \in 1..Len(heur_suspicious_tlds) : EndsWith(url_lower, heur_suspicious_tlds[i])

\* if domain.count('-') >= 3: +0.3  elif domain.count('-') >= 2: +0.2
HyphenTier(domain) ==
    IF Count(domain, "-") >= 3 THEN Pct(30)
    ELSE IF Count(domain, "-") >= 2 THEN Pct(20)
    ELSE 0

\* legit_domain in url_lower and not domain.endswith(legit_domain)
ImpersonationMatch(legit_domain, url_lower, domain) ==
    Contains(url_lower, legit_domain) /\ ~EndsWith(domain, legit_domain)

\* the loop without its break: every matching brand adds its weight
RECURSIVE ImpersonationLoop_NoBreak(_, _, _, _)
ImpersonationLoop_NoBreak(i, score, url_lower, domain) ==
    IF i > Len(legitimate_domains) THEN score
    ELSE ImpersonationLoop_NoBreak(i + 1,
            IF ImpersonationMatch(legitimate_domains[i], url_lower, domain)
            THEN score + Pct(60) ELSE score,
            url_lower, domain)

\* the loop over legitimate_domains from index i, with its break
RECURSIVE ImpersonationLoop(_, _, _, _)
ImpersonationLoop(i, score, url_lower, domain) ==
    IF i > Len(legitimate_domains) THEN score
    ELSE IF ImpersonationMatch(legitimate_domains[i], url_lower, domain)
         THEN score + Pct(60)
         ELSE ImpersonationLoop(i + 1, score, url_lower, domain)

\* not url.startswith('https://') and any(keyword in url_lower for ...)
NoHttpsLogin(u, url_lower) ==
    /\ ~StartsWith(u, "https://")
    /\ \E i \in 1..Len(login_keywords) : Contains(url_lower, login_keywords[i])

\* The scorer.  trail[k] is the local `score` after the k-th rule block.
ApplyHeuristics(u) ==
    IF UrlParseRaises(u)
    THEN [status |-> "raised", error |-> "Invalid IPv6 URL"]
    ELSE
    Bind(Lower(u), LAMBDA url_lower :
    Bind(KeywordTier(KeywordCount(phishing_keywords, url_lower)), LAMBDA s1 :
    Bind(s1 + (IF SearchQuad(u, FALSE) THEN Pct(50) ELSE 0), LAMBDA s2 :
    Bind(s2 + (IF HeurSuspiciousTld(url_lower) THEN Pct(30) ELSE 0), LAMBDA s3 :
    Bind(s3 + (IF Contains(u, "@") THEN Pct(40) ELSE 0), LAMBDA s4 :
    Bind(UrlSplit(u).netloc, LAMBDA domain :
    Bind(s4 + HyphenTier(domain), LAMBDA s5 :
    Bind(ImpersonationLoop(1, s5, url_lower, domain), LAMBDA s6 :
    Bind(s6 + (IF Len(u) > 100 THEN Pct(20) ELSE 0), LAMBDA s7 :
    Bind(s7 + (IF NoHttpsLogin(u, url_lower) THEN Pct(20) ELSE 0), LAMBDA s8 :
        [ status |-> "returned",
          value  |-> Min(s8, One),
          trail  |-> <<s1, s2, s3, s4, s5, s6, s7, s8>> ]))))))))))

(***************************************************************************)
(* tldextract.extract(url), the library call of the training-side and      *)
(* advanced extractors: the netloc is read leniently (no scheme needed,    *)
(* userinfo and port dropped), and the longest public suffix is split off. *)
(* PublicSuffixes is the part of the public suffix list that the hosts of  *)
(* the model touch.                                                        *)
(***************************************************************************)
PublicSuffixes ==
    { "com", "org", "net", "edu", "gov", "mil", "tk", "ml", "ga", "cf", "gq",
      "xyz", "top", "uk", "co.uk" }

\* lenient_netloc(url)
LenientNetloc(u) ==
    Bind(SubSeq(u, SchemeEnd(u) + 1, Len(u)), LAMBDA noScheme :
    Bind(IF StartsWith(noScheme, "//") THEN SubSeq(noScheme, 3, Len(noScheme))
         ELSE u, LAMBDA schemeless :
    Bind(SubSeq(schemeless, 1, FindAny(schemeless, {"/", "?", "#"}, 1) - 1),
         LAMBDA authority :
    Bind(SubSeq(authority, RFind(authority, "@") + 1, Len(authority)),
         LAMBDA hostport :
        IF Find(hostport, ":") > 0
        THEN SubSeq(hostport, 1, Find(hostport, ":") - 1)
        ELSE hostport))))

\* a decimal number of one to three digits that is at most 255
IsIPv4Octet(label) ==
    /\ Len(label) \in 1..3
    /\ AllDigits(label, 1, Len(label))
    /\ \/ Len(label) < 3
       \/ DigitVal(CharAt(label, 1)) < 2
       \/ /\ CharAt(label, 1) = "2"
          /\ \/ DigitVal(CharAt(label, 2)) < 5
             \/ CharAt(label, 2) = "5" /\ DigitVal(CharAt(label, 3)) <= 5

\* looks_like_ip(netloc)
LooksLikeIP(labels) ==
    Len(labels) = 4 /\ \A k \in 1..4 : IsIPv4Octet(labels[k])

\* the number of trailing labels that form the longest public suffix
SuffixLabels(labels) ==
    Bind({k \in 1..Len(labels) :
            Lower(JoinDots(labels, Len(labels) - k + 1, Len(labels)))
                \in PublicSuffixes}, LAMBDA ks :
        IF ks = {} THEN 0 ELSE CHOOSE k \in ks : \A j \in ks : j <= k)

TldExtract(u) ==
    Bind(LenientNetloc(u), LAMBDA netloc :
    Bind(SplitOn(netloc, "."), LAMBDA labels :
    Bind(SuffixLabels(labels), LAMBDA k :
        IF k = 0 /\ netloc # "" /\ LooksLikeIP(labels)
        THEN [subdomain |-> "", domain |-> netloc, suffix |-> ""]
        ELSE [ subdomain |-> JoinDots(labels, 1, Len(labels) - k - 1),
               domain    |-> IF Len(labels) - k >= 1
                             THEN labels[Len(labels) - k] ELSE "",
               suffix    |-> JoinDots(labels, Len(labels) - k + 1, Len(labels)) ])))

(***************************************************************************)
(* URLFeatureExtractor: the 20-feature structural extractor, in its        *)
(* inference-side copy (backend/app/features.py) and its training-side     *)
(* copy (ml_engine/feature_extractor.py).                                  *)
(***************************************************************************)
basic_feature_names ==
    << "url_length", "num_dots", "num_hyphens", "num_underscores",
       "num_slashes", "num_questionmarks", "num_equals", "num_at",
       "num_ampersand", "num_digits", "num_special_chars", "has_ip",
       "has_https", "domain_length", "subdomain_length", "path_length",
       "num_subdomains", "hostname_length", "num_params", "entropy" >>

IsSpecial(c) == ~IsAlnum(c)

\* the thirteen entries appended before the URL is parsed (the same text in
\* both copies)
BasicLexical(u) ==
    << Len(u), Count(u, "."), Count(u, "-"), Count(u, "_"), Count(u, "/"),
       Count(u, "?"), Count(u, "="), Count(u, "@"), Count(u, "&"),
       CountIf(u, IsDigit), CountIf(u, IsSpecial),
       IF SearchQuad(u, TRUE) THEN 1 ELSE 0,
       IF StartsWith(u, "https://") THEN 1 ELSE 0 >>

\* len(query.split('&')) if query else 0
NumParams(query) == IF query = "" THEN 0 ELSE Count(query, "&") + 1

\* features.py: domain and subdomain are cut from parsed.netloc by hand
BackendDomainBlock(u) ==
    IF UrlParseRaises(u) THEN <<0, 0, 0, 0, 0, 0>>
    ELSE
    Bind(UrlSplit(u), LAMBDA parsed :
    Bind(SplitOn(parsed.netloc, "."), LAMBDA parts :
    Bind(IF Len(parts) >= 2 THEN JoinDots(parts, Len(parts) - 1, Len(parts))
         ELSE parsed.netloc, LAMBDA domain :
    Bind(IF Len(parts) > 2 THEN JoinDots(parts, 1, Len(parts) - 2) ELSE "",
         LAMBDA subdomain :
        << Len(domain), Len(subdomain), Len(parsed.path),
           IF Len(parts) > 2 THEN Len(parts) - 2 ELSE 0,
           Len(parsed.netloc), NumParams(parsed.query) >>))))

\* len(subdomain.split('.')) if subdomain else 0
NumSubdomains(subdomain) ==
    IF subdomain = "" THEN 0 ELSE Count(subdomain, ".") + 1

\* feature_extractor.py: domain and subdomain come from tldextract
TrainDomainBlock(u) ==
    IF UrlParseRaises(u) THEN <<0, 0, 0, 0, 0, 0>>
    ELSE
    Bind(UrlSplit(u), LAMBDA parsed :
    Bind(TldExtract(u), LAMBDA extracted :
        << Len(extracted.domain), Len(extracted.subdomain), Len(parsed.path),
           NumSubdomains(extracted.subdomain),
           Len(parsed.netloc), NumParams(parsed.query) >>))

\* the extractor with a parse failure zeroing the whole vector
BackendExtractFeatures_AllZero(u) ==
    IF UrlParseRaises(u) THEN [i \in 1..20 |-> 0]
    ELSE BasicLexical(u) \o BackendDomainBlock(u) \o <<ShannonEntropy(u)>>

\* backend/app/features.py URLFeatureExtractor.extract_features
BackendExtractFeatures(u) ==
    BasicLexical(u) \o BackendDomainBlock(u) \o <<ShannonEntropy(u)>>

\* ml_engine/feature_extractor.py URLFeatureExtractor.extract_features
TrainExtractFeatures(u) ==
    BasicLexical(u) \o TrainDomainBlock(u) \o <<ShannonEntropy(u)>>

(***************************************************************************)
(* AdvancedFeatureExtractor: 8 lexical, 5 statistical and 7 domain         *)
(* features (backend/app/advanced_feature_extractor.py), and its extension *)
(* by 4 reputation estimates (ml_engine/advanced_feature_extractor.py).    *)
(***************************************************************************)
suspicious_keywords ==
    << "login", "signin", "verify", "secure", "account", "update",
       "banking", "confirm", "suspended", "locked", "unusual",
       "activity", "alert", "security", "notification", "password",
       "credential", "validate", "authenticate", "billing" >>

suspicious_tlds ==
    << ".tk", ".ml", ".ga", ".cf", ".gq", ".xyz", ".top", ".work",
       ".click", ".link", ".download", ".racing", ".win" >>

trusted_tlds == << ".com", ".org", ".net", ".edu", ".gov", ".mil" >>

advanced_feature_names ==
    << "url_length", "num_dots", "num_slashes", "num_hyphens", "num_digits",
       "has_ip_address", "suspicious_keyword_count", "uses_https",
       "shannon_entropy", "vowel_consonant_ratio", "digit_letter_ratio",
       "special_char_ratio", "url_randomness_score",
       "domain_length", "num_subdomains", "tld_category",
       "domain_has_digits", "domain_entropy", "path_length", "query_length" >>

extended_feature_names ==
    advanced_feature_names \o
    << "domain_age_indicator", "registrar_reputation",
       "nameserver_count_estimate", "ttl_indicator" >>

\* _has_ip_address
\* the lenient pattern tried at the start of the URL only (re.match)
HasIpAddress_AtStart(u) == MatchQuad(u, 1, 4, FALSE)

HasIpAddress(u) == SearchQuad(u, FALSE)

\* the lexical block with the scheme prefix compared without regard to case
ExtractLexicalFeatures_AnyCase(u) ==
    << Len(u), Count(u, "."), Count(u, "/"), Count(u, "-"),
       CountIf(u, IsDigit),
       IF HasIpAddress(u) THEN 1 ELSE 0,
       KeywordCount(suspicious_keywords, Lower(u)),
       IF StartsWith(Lower(u), "https://") THEN 1 ELSE 0 >>

ExtractLexicalFeatures(u) ==
    << Len(u), Count(u, "."), Count(u, "/"), Count(u, "-"),
       CountIf(u, IsDigit),
       IF HasIpAddress(u) THEN 1 ELSE 0,
       KeywordCount(suspicious_keywords, Lower(u)),
       IF StartsWith(u, "https://") THEN 1 ELSE 0 >>

IsVowel(c) == c \in CharsOf("aeiouAEIOU")
IsConsonant(c) == c \in CharsOf("bcdfghjklmnpqrstvwxyzBCDFGHJKLMNPQRSTVWXYZ")

\* a / b as a float, in millionths (0.0 when b is 0)
Ratio(a, b) == IF b = 0 THEN 0 ELSE (a * One) \div b

VowelConsonantRatio(u) == Ratio(CountIf(u, IsVowel), CountIf(u, IsConsonant))
DigitLetterRatio(u) == Ratio(CountIf(u, IsDigit), CountIf(u, IsAlpha))
SpecialCharRatio(u) == Ratio(CountIf(u, IsSpecial), Len(u))

\* ''.join(c for c in s if c.isalnum()) (the recursion halves the string)
RECURSIVE FilterAlnum(_)
FilterAlnum(s) ==
    IF Len(s) = 0 THEN ""
    ELSE IF Len(s) = 1 THEN (IF IsAlnum(s) THEN s ELSE "")
    ELSE FilterAlnum(SubSeq(s, 1, Len(s) \div 2))
            \o FilterAlnum(SubSeq(s, Len(s) \div 2 + 1, Len(s)))

UrlRandomnessScore(u) ==
    Bind(FilterAlnum(u), LAMBDA alphanum :
        IF Len(alphanum) < 2 THEN 0
        ELSE Ratio(Cardinality({i \in 1..(Len(alphanum) - 1) :
                        CharAt(alphanum, i) # CharAt(alphanum, i + 1)}),
                   Len(alphanum) - 1))

ExtractStatisticalFeatures(u) ==
    << ShannonEntropy(u), VowelConsonantRatio(u), DigitLetterRatio(u),
       SpecialCharRatio(u), UrlRandomnessScore(u) >>

InList(x, list) == \E i \in 1..Len(list) : list[i] = x
EndsWithAny(x, list) == \E i \in 1..Len(list) : EndsWith(x, list[i])

\* 0 = trusted, 2 = suspicious, 1 = neutral
TldCategory(tld) ==
    IF InList(tld, trusted_tlds) THEN 0
    ELSE IF EndsWithAny(tld, suspicious_tlds) THEN 2
    ELSE 1

\* the seven entries both advanced extractors compute once the URL is parsed
DomainSeven(parsed, extracted) ==
    << Len(extracted.domain),
       NumSubdomains(extracted.subdomain),
       TldCategory("." \o extracted.suffix),
       IF CountIf(extracted.domain, IsDigit) > 0 THEN 1 ELSE 0,
       ShannonEntropy(extracted.domain),
       Len(parsed.path),
       Len(parsed.query) >>

\* backend _extract_domain_features
ExtractDomainFeatures(u) ==
    IF UrlParseRaises(u) THEN [i \in 1..7 |-> 0]
    ELSE DomainSeven(UrlSplit(u), TldExtract(u))

\* backend AdvancedFeatureExtractor.extract_features
AdvancedExtractFeatures(u) ==
    ExtractLexicalFeatures(u) \o ExtractStatisticalFeatures(u)
        \o ExtractDomainFeatures(u)

well_known ==
    << "google", "facebook", "amazon", "microsoft", "apple", "github",
       "stackoverflow", "wikipedia" >>

year_tokens == << "2020", "2021", "2022", "2023", "2024" >>

ContainsAny(text, list) == \E i \in 1..Len(list) : Contains(text, list[i])

\* the estimate with independent tests, a later rule overriding an earlier
EstimateDomainAge_LastWins(domain, u) ==
    IF ShannonEntropy(domain) > 4 * One THEN Pct(25)
    ELSE IF Len(domain) <= 4 THEN Pct(30)
    ELSE IF ContainsAny(u, year_tokens) THEN Pct(20)
    ELSE IF ContainsAny(Lower(domain), well_known) THEN One
    ELSE Pct(50)

\* _estimate_domain_age: 1.0, 0.2, 0.3, 0.25 or 0.5
EstimateDomainAge(domain, u) ==
    IF ContainsAny(Lower(domain), well_known) THEN One
    ELSE IF ContainsAny(u, year_tokens) THEN Pct(20)
    ELSE IF Len(domain) <= 4 THEN Pct(30)
    ELSE IF ShannonEntropy(domain) > 4 * One THEN Pct(25)
    ELSE Pct(50)

\* the estimate without a neutral grade
EstimateRegistrarReputation_TwoGrades(tld) ==
    IF InList(tld, trusted_tlds) THEN 2 ELSE 0

EstimateRegistrarReputation(tld) ==
    IF InList(tld, trusted_tlds) THEN 2
    ELSE IF EndsWithAny(tld, suspicious_tlds) THEN 0
    ELSE 1

EstimateNameserverCount(tld, domain) ==
    IF InList(tld, trusted_tlds) /\ Len(domain) > 5 THEN 3
    ELSE IF EndsWithAny(tld, suspicious_tlds) THEN 1
    ELSE IF Len(domain) <= 4 \/ ShannonEntropy(domain) > 4 * One THEN 1
    ELSE 2

EstimateTtl(tld, domain) ==
    IF InList(tld, trusted_tlds) /\ Len(domain) > 6 THEN 2
    ELSE IF EndsWithAny(tld, suspicious_tlds) THEN 0
    ELSE IF ShannonEntropy(domain) > 4 * One THEN 0
    ELSE 1

\* the extended block with the fallback of the 20-feature extractor
ExtendedDomainFeatures_ShortFallback(u) ==
    IF UrlParseRaises(u) THEN [i \in 1..7 |-> 0]
    ELSE DomainSeven(UrlSplit(u), TldExtract(u)) \o
         << EstimateDomainAge(TldExtract(u).domain, u),
            EstimateRegistrarReputation("." \o TldExtract(u).suffix),
            EstimateNameserverCount("." \o TldExtract(u).suffix, TldExtract(u).domain),
            EstimateTtl("." \o TldExtract(u).suffix, TldExtract(u).domain) >>

\* the extended block with the four estimates put before the seven entries
ExtendedDomainFeatures_EstimatesFirst(u) ==
    IF UrlParseRaises(u) THEN [i \in 1..11 |-> 0]
    ELSE << EstimateDomainAge(TldExtract(u).domain, u),
            EstimateRegistrarReputation("." \o TldExtract(u).suffix),
            EstimateNameserverCount("." \o TldExtract(u).suffix, TldExtract(u).domain),
            EstimateTtl("." \o TldExtract(u).suffix, TldExtract(u).domain) >>
         \o DomainSeven(UrlSplit(u), TldExtract(u))

\* ml_engine _extract_domain_features
ExtendedDomainFeatures(u) ==
    IF UrlParseRaises(u) THEN [i \in 1..11 |-> 0]
    ELSE
    Bind(TldExtract(u), LAMBDA extracted :
    Bind("." \o extracted.suffix, LAMBDA tld :
        DomainSeven(UrlSplit(u), extracted) \o
        << EstimateDomainAge(extracted.domain, u),
           EstimateRegistrarReputation(tld),
           EstimateNameserverCount(tld, extracted.domain),
           EstimateTtl(tld, extracted.domain) >>))

\* ml_engine AdvancedFeatureExtractor.extract_features
ExtendedExtractFeatures(u) ==
    ExtractLexicalFeatures(u) \o ExtractStatisticalFeatures(u)
        \o ExtendedDomainFeatures(u)

(***************************************************************************)
(* PhishingPredictor                                                       *)
(***************************************************************************)
\* what the loaded model may return: a probability of the grid, or one of two
\* values that round(x, 4) changes (0.12346 and 0.49999)
ModelOutputs ==
    {(((One * k) \div ProbSteps) \div 10) * 10 : k \in 0..ProbSteps}
        \cup {123460, 499990}

\* round(x, 4)
Round4(x) == ((x + 50) \div 100) * 100

\* the tiers with 0.3 counted as low
GetRiskLevel_LowInclusive(p) ==
    IF p <= Pct(30) THEN "low"
    ELSE IF p < Pct(70) THEN "medium"
    ELSE "high"

GetRiskLevel(p) ==
    IF p < Pct(30) THEN "low"
    ELSE IF p < Pct(70) THEN "medium"
    ELSE "high"

\* 0.6 * ml_probability + 0.4 * heuristic_score
Blend(m, h) == (6 * m + 4 * h) \div 10

IsPhishing(p) == p > Pct(50)

ErrorResult(u, message) ==
    [url |-> u, error |-> message, prediction |-> "error", confidence |-> 0]

NoValue == [status |-> "none"]
NoResult == [prediction |-> "none"]

\* predict with the label and the confidence taken from the model output
\* alone
PredictFrame_LabelFromModel(features, m, h) ==
    [ status          |-> "returned",
      features        |-> features,
      ml_probability  |-> m,
      heuristic_score |-> h,
      probability     |-> Blend(m, h),
      is_phishing     |-> IsPhishing(m),
      confidence      |-> IF IsPhishing(m) THEN m ELSE One - m ]

\* the locals of PhishingPredictor.predict at its return statement, for the
\* extracted features, model output m and heuristic score h
PredictFrame(features, m, h) ==
    Bind(Blend(m, h), LAMBDA probability :
    Bind(IsPhishing(probability), LAMBDA is_phishing :
        [ status          |-> "returned",
          features        |-> features,
          ml_probability  |-> m,
          heuristic_score |-> h,
          probability     |-> probability,
          is_phishing     |-> is_phishing,
          confidence      |-> IF is_phishing THEN probability
                                             ELSE One - probability ]))

PredictResult(u, f) ==
    [ url        |-> u,
      prediction |-> IF f.is_phishing THEN "phishing" ELSE "legitimate",
      confidence |-> Round4(f.confidence),
      probability |-> Round4(f.probability),
      risk_level |-> GetRiskLevel(f.probability),
      is_safe    |-> ~f.is_phishing ]

(***************************************************************************)
(* EnhancedPredictor.predict (backend/app/main.py)                         *)
(***************************************************************************)
Branches == {"sklearn", "booster"}

\* model.predict of a classifier that labels phishing only above 0.8
SklearnPredict_HighThreshold(p) == IF p > Pct(80) THEN 1 ELSE 0

\* model.predict of a scikit-learn binary classifier whose predict_proba
\* gives p for class 1: the class of the larger probability, class 0 on a tie
SklearnPredict(p) == IF p > One - p THEN 1 ELSE 0

\* the probability of phishing, from what the loaded model returns
EnhancedProbability(branch, out) ==
    IF branch = "sklearn" THEN out ELSE One - out

EnhancedPrediction(branch, probability) ==
    IF branch = "sklearn" THEN SklearnPredict(probability)
    ELSE IF probability >= Pct(50) THEN 1 ELSE 0

EnhancedRiskLevel(probability) ==
    IF probability < Pct(30) THEN "low"
    ELSE IF probability < Pct(70) THEN "medium"
    ELSE "high"

\* predict with the confidence always the phishing probability
EnhancedFrame_ConfidenceIsProbability(features, branch, out) ==
    [ status      |-> "returned",
      features    |-> features,
      branch      |-> branch,
      probability |-> EnhancedProbability(branch, out),
      prediction  |-> EnhancedPrediction(branch, EnhancedProbability(branch, out)),
      is_phishing |-> EnhancedPrediction(branch, EnhancedProbability(branch, out)) = 1,
      confidence  |-> EnhancedProbability(branch, out) ]

\* the locals of EnhancedPredictor.predict at its return statement
EnhancedFrame(features, branch, out) ==
    Bind(EnhancedProbability(branch, out), LAMBDA probability :
    Bind(EnhancedPrediction(branch, probability), LAMBDA prediction :
        [ status      |-> "returned",
          features    |-> features,
          branch      |-> branch,
          probability |-> probability,
          prediction  |-> prediction,
          is_phishing |-> prediction = 1,
          confidence  |-> IF prediction = 1 THEN probability
                                            ELSE One - probability ]))

\* what datetime.now().isoformat() may return
Timestamps == {"2026-01-01T00:00:00", "2026-01-01T00:00:01"}

EnhancedResult(u, f, now) ==
    [ url        |-> u,
      prediction |-> IF f.is_phishing THEN "phishing" ELSE "legitimate",
      confidence |-> Round4(f.confidence),
      probability |-> Round4(f.probability),
      risk_level |-> EnhancedRiskLevel(f.probability),
      is_safe    |-> ~f.is_phishing,
      timestamp  |-> now ]

EnhancedErrorResult(u, message, now) ==
    [ url |-> u, prediction |-> "error", confidence |-> 0, probability |-> 0,
      risk_level |-> "unknown", is_safe |-> FALSE, error |-> message,
      timestamp |-> now ]

\* GET /model-info: "features_count"
features_count == 20

(***************************************************************************)
(* EnhancedPredictor.explain.  An indicator is kept by its "feature" and   *)
(* "severity" entries; the explanation sentence is kept by its parts: the  *)
(* verdict word, the confidence it prints and the reasons it joins.        *)
(***************************************************************************)
\* str(n) of a natural number
RECURSIVE IntToStr(_)
IntToStr(n) ==
    IF n < 10 THEN CharAt(DigitStr, n + 1)
    ELSE IntToStr(n \div 10) \o CharAt(DigitStr, (n % 10) + 1)

\* features.get(name, 0) on the dict extract_features_dict builds
FeaturesGet(features, name) ==
    features[CHOOSE i \in 1..Len(advanced_feature_names) :
                 advanced_feature_names[i] = name]

\* the appended dicts of the tests that held, in order
Appended(candidates) ==
    Bind(SelectSeq(candidates, LAMBDA c : c.test), LAMBDA kept :
        [i \in 1..Len(kept) |->
            [feature |-> kept[i].feature, severity |-> kept[i].severity]])

\* indicators[:5]
FirstFive(indicators) == SubSeq(indicators, 1, Min(5, Len(indicators)))

\* _get_top_indicators(features, prediction)
GetTopIndicators(features, prediction) ==
    FirstFive(Appended(
        IF prediction = "phishing"
        THEN << [test |-> FeaturesGet(features, "has_ip_address") = 1,
                 feature |-> "IP Address in URL", severity |-> "high"],
                [test |-> FeaturesGet(features, "suspicious_keyword_count") >= 2,
                 feature |-> "Suspicious Keywords", severity |-> "high"],
                [test |-> FeaturesGet(features, "uses_https") = 0,
                 feature |-> "No HTTPS", severity |-> "medium"],
                [test |-> FeaturesGet(features, "url_length") > 75,
                 feature |-> "Long URL", severity |-> "medium"],
                [test |-> FeaturesGet(features, "shannon_entropy") > Pct(450),
                 feature |-> "High Entropy", severity |-> "medium"] >>
        ELSE << [test |-> FeaturesGet(features, "uses_https") = 1,
                 feature |-> "HTTPS Enabled", severity |-> "positive"],
                [test |-> FeaturesGet(features, "tld_category") = 0,
                 feature |-> "Trusted TLD", severity |-> "positive"],
                [test |-> FeaturesGet(features, "suspicious_keyword_count") = 0,
                 feature |-> "No Suspicious Keywords",
                 severity |-> "positive"] >>))

\* the reasons list of the tests that held, in order
Reasons(candidates) ==
    Bind(SelectSeq(candidates, LAMBDA c : c.test), LAMBDA kept :
        [i \in 1..Len(kept) |-> kept[i].reason])

\* _generate_explanation(features, prediction_result)
GenerateExplanation(features, prediction_result) ==
    IF prediction_result.prediction = "phishing"
    THEN [ verdict |-> "PHISHING",
           confidence |-> prediction_result.confidence,
           reasons |-> Reasons(
             << [test |-> FeaturesGet(features, "has_ip_address") = 1,
                 reason |-> "IP address in URL"],
                [test |-> FeaturesGet(features, "suspicious_keyword_count") >= 2,
                 reason |->
                    IntToStr(FeaturesGet(features, "suspicious_keyword_count"))
                        \o " suspicious keywords"],
                [test |-> FeaturesGet(features, "uses_https") = 0,
                 reason |-> "no HTTPS encryption"],
                [test |-> FeaturesGet(features, "num_hyphens") >= 3,
                 reason |-> "excessive hyphens"] >>) ]
    ELSE [ verdict |-> "LEGITIMATE",
           confidence |-> prediction_result.confidence,
           reasons |-> Reasons(
             << [test |-> FeaturesGet(features, "uses_https") = 1,
                 reason |-> "HTTPS encryption"],
                [test |-> FeaturesGet(features, "tld_category") = 0,
                 reason |-> "trusted domain"],
                [test |-> FeaturesGet(features, "suspicious_keyword_count") = 0,
                 reason |-> "no suspicious keywords"] >>) ]

\* the dict explain returns from its try block
ExplainResult(u, prediction_result, features) ==
    [ url            |-> u,
      prediction     |-> prediction_result.prediction,
      confidence     |-> prediction_result.confidence,
      features       |-> features,
      top_indicators |-> GetTopIndicators(features, prediction_result.prediction),
      explanation    |-> GenerateExplanation(features, prediction_result) ]

NoExplanation == [prediction |-> "none"]

(***************************************************************************)
(* predictor.py get_predictor(): threads of one process call it; a thread  *)
(* may be switched out between any two of its steps.                       *)
(***************************************************************************)
\* the threads that call get_predictor()
NumThreads == 3
Threads == 1..NumThreads

\* Python's None where an object (a positive id) may stand
None == 0

\* the module is imported and no thread has called yet
SingletonStart ==
    /\ predictor_instance = None
    /\ constructed = {}
    /\ pc = [t \in Threads |-> "idle"]
    /\ got = [t \in Threads |-> None]

\* a thread enters get_predictor()
Enter ==
    \E t \in Threads :
        /\ pc[t] = "idle"
        /\ pc' = [pc EXCEPT ![t] = "test"]
        /\ UNCHANGED <<predictor_instance, constructed, got>>
        /\ UNCHANGED <<requestVars, sessionVars, authVars>>

\* if _predictor_instance is None
TestInstance ==
    \E t \in Threads :
        /\ pc[t] = "test"
        /\ pc' = [pc EXCEPT ![t] =
                    IF predictor_instance = None THEN "construct" ELSE "return"]
        /\ UNCHANGED <<predictor_instance, constructed, got>>
        /\ UNCHANGED <<requestVars, sessionVars, authVars>>

\* PhishingPredictor(): the model file is read and a new object is built
ConstructPredictor ==
    \E t \in Threads :
        /\ pc[t] = "construct"
        /\ \E object \in {Cardinality(constructed) + 1} :
              /\ constructed' = constructed \cup {object}
              /\ got' = [got EXCEPT ![t] = object]
        /\ pc' = [pc EXCEPT ![t] = "assign"]
        /\ UNCHANGED predictor_instance
        /\ UNCHANGED <<requestVars, sessionVars, authVars>>

\* PhishingPredictor(): load_model raises (no model file, a bad pickle) and
\* the exception leaves get_predictor()
ConstructRaises ==
    \E t \in Threads :
        /\ pc[t] = "construct"
        /\ pc' = [pc EXCEPT ![t] = "raised"]
        /\ UNCHANGED <<predictor_instance, constructed, got>>
        /\ UNCHANGED <<requestVars, sessionVars, authVars>>

\* _predictor_instance = <the new object>
AssignInstance ==
    \E t \in Threads :
        /\ pc[t] = "assign"
        /\ predictor_instance' = got[t]
        /\ pc' = [pc EXCEPT ![t] = "return"]
        /\ UNCHANGED <<constructed, got>>
        /\ UNCHANGED <<requestVars, sessionVars, authVars>>

\* return _predictor_instance
ReturnInstance ==
    \E t \in Threads :
        /\ pc[t] = "return"
        /\ got' = [got EXCEPT ![t] = predictor_instance]
        /\ pc' = [pc EXCEPT ![t] = "done"]
        /\ UNCHANGED <<predictor_instance, constructed>>
        /\ UNCHANGED <<requestVars, sessionVars, authVars>>

GetPredictor ==
    \/ Enter \/ TestInstance \/ ConstructPredictor
    \/ ConstructRaises \/ AssignInstance \/ ReturnInstance

(***************************************************************************)
(* Accounts (backend/app/auth.py, auth_routes.py, database.py).  A row of  *)
(* the users table is kept by its id, its email and is_active; "account"   *)
(* numbers the registrations, so that a row and a token can be traced to   *)
(* the registration they came from (it is not a column).  An access token  *)
(* is kept by its payload (user_id, email) and by whether its "exp" time   *)
(* has passed.                                                             *)
(***************************************************************************)
\* the registrations a behaviour may make
MaxRegistrations == 3

Emails == {"u@example.org", "v@example.org"}

\* DATABASE_URL: SQLite by default, PostgreSQL in production
Engines == {"sqlite", "postgresql"}

\* the tables are created empty and no token exists
AuthStart ==
    /\ engine = "sqlite"
    /\ users = {}
    /\ sequence = 0
    /\ issued = {}
    /\ auth = NoValue

\* the id the database gives a new row of users: Column(Integer,
\* primary_key=True) is the rowid in SQLite, one more than the largest id in
\* the table, and a sequence in PostgreSQL
NewId(rows, eng, seq) ==
    IF eng = "sqlite"
    THEN IF rows = {} THEN 1
         ELSE (CHOOSE r \in rows : \A q \in rows : q.id <= r.id).id + 1
    ELSE seq + 1

\* no row: the None of get_current_user
NoUser == [id |-> None]

\* get_current_user(token, db): None, or the row whose id the payload names
GetCurrentUser(token, rows) ==
    IF token.expired THEN NoUser
    ELSE IF \E r \in rows : r.id = token.user_id
         THEN CHOOSE r \in rows : r.id = token.user_id
         ELSE NoUser

\* get_current_active_user: the user, or the HTTPException it raises
GetCurrentActiveUser(token, rows) ==
    Bind(GetCurrentUser(token, rows), LAMBDA current_user :
        IF current_user = NoUser THEN [status |-> 401]
        ELSE IF ~current_user.is_active THEN [status |-> 403]
        ELSE [status |-> 200, user |-> current_user])

\* what a protected endpoint answered to a token, with the note whether the
\* registration the token was issued to still had its row
Outcome(token, rows) ==
    [ token |-> token,
      answer |-> GetCurrentActiveUser(token, rows),
      account_deleted |-> \A r \in rows : r.account # token.account ]

\* POST /auth/register: 400 when the email is taken, a new row otherwise
Register ==
    /\ sequence < MaxRegistrations
    /\ \E email \in Emails :
          IF \E r \in users : r.email = email
          THEN UNCHANGED <<users, sequence>>
          ELSE /\ users' = users \cup
                     {[ id |-> NewId(users, engine, sequence), email |-> email,
                        is_active |-> TRUE, account |-> sequence + 1 ]}
               /\ sequence' = sequence + 1
    /\ UNCHANGED <<engine, issued, auth>>
    /\ UNCHANGED <<requestVars, sessionVars, singletonVars>>

\* POST /auth/login: 401 on an unknown email or a wrong password, a token
\* for the row's id and email otherwise
Login ==
    /\ \E email \in Emails, password_ok \in BOOLEAN :
          IF password_ok /\ \E r \in users : r.email = email
          THEN \E user \in {r \in users : r.email = email} :
                  issued' = issued \cup
                     {[ user_id |-> user.id, email |-> user.email,
                        expired |-> FALSE, account |-> user.account ]}
          ELSE UNCHANGED issued
    /\ UNCHANGED <<engine, users, sequence, auth>>
    /\ UNCHANGED <<requestVars, sessionVars, singletonVars>>

\* the "exp" time of a token passes
TokenExpires ==
    /\ \E token \in issued :
          /\ ~token.expired
          /\ issued' = (issued \ {token}) \cup {[token EXCEPT !.expired = TRUE]}
    /\ UNCHANGED <<engine, users, sequence, auth>>
    /\ UNCHANGED <<requestVars, sessionVars, singletonVars>>

\* GET /auth/me with a token login once handed out
GetMe ==
    /\ \E token \in issued : auth' = Outcome(token, users)
    /\ UNCHANGED <<engine, users, sequence, issued>>
    /\ UNCHANGED <<requestVars, sessionVars, singletonVars>>

\* DELETE /auth/me: the row of the authenticated user is deleted
DeleteAccount ==
    /\ \E token \in issued :
          \E outcome \in {Outcome(token, users)} :
              /\ auth' = outcome
              /\ users' = IF outcome.answer.status = 200
                             THEN users \ {outcome.answer.user}
                             ELSE users
    /\ UNCHANGED <<engine, sequence, issued>>
    /\ UNCHANGED <<requestVars, sessionVars, singletonVars>>


(***************************************************************************)
(* A session of extract_features calls on one extractor object.            *)
(***************************************************************************)
Variants ==
    { "backend.URLFeatureExtractor", "ml_engine.URLFeatureExtractor",
      "backend.AdvancedFeatureExtractor", "ml_engine.AdvancedFeatureExtractor" }

trusted_registrars == << "godaddy", "namecheap", "google", "amazon", "cloudflare" >>

\* __init__ of each extractor class: the fields of the new object
Construct(class) ==
    CASE class = "backend.AdvancedFeatureExtractor" ->
            [ class |-> class,
              suspicious_keywords |-> suspicious_keywords,
              suspicious_tlds |-> suspicious_tlds,
              trusted_tlds |-> trusted_tlds,
              feature_names |-> advanced_feature_names ]
      [] class = "ml_engine.AdvancedFeatureExtractor" ->
            [ class |-> class,
              suspicious_keywords |-> suspicious_keywords,
              suspicious_tlds |-> suspicious_tlds,
              trusted_tlds |-> trusted_tlds,
              trusted_registrars |-> trusted_registrars,
              feature_names |-> extended_feature_names ]
      [] OTHER -> [ class |-> class, feature_names |-> basic_feature_names ]

\* extract_features(url) of each extractor class
ExtractFeaturesOf(class, u) ==
    CASE class = "backend.URLFeatureExtractor" -> BackendExtractFeatures(u)
      [] class = "ml_engine.URLFeatureExtractor" -> TrainExtractFeatures(u)
      [] class = "backend.AdvancedFeatureExtractor" -> AdvancedExtractFeatures(u)
      [] OTHER -> ExtendedExtractFeatures(u)

\* the URLs a session asks about
SessionUrls ==
    { "http://paypal.com/login", "https://[secure-login/verify",
      "http://192.168.1.1/", "???" }

ExtractorStart ==
    /\ extractor = Construct("backend.AdvancedFeatureExtractor")
    /\ first = [u \in SessionUrls |-> NoValue]
    /\ last = NoValue

\* no request is being served
RequestStart ==
    /\ call = "idle"
    /\ heur = NoValue
    /\ vec = NoValue
    /\ result = NoResult
    /\ frame = NoValue
    /\ explained = NoExplanation

SessionInit ==
    /\ url = ""
    /\ RequestStart
    /\ extractor \in {Construct(class) : class \in Variants}
    /\ first = [u \in SessionUrls |-> NoValue]
    /\ last = NoValue
    /\ SingletonStart /\ AuthStart

\* a call whose features list lives on the object and is never emptied: the
\* entries of a call are appended to those of the calls before it
ExtractCall_Accumulates ==
    /\ \E u \in SessionUrls :
          \E features \in {(IF last = NoValue THEN << >> ELSE last.features)
                               \o ExtractFeaturesOf(extractor.class, u)} :
              /\ last' = [status |-> "returned", url |-> u,
                          features |-> features,
                          repeated |-> first[u] # NoValue]
              /\ first' = IF first[u] = NoValue
                             THEN [first EXCEPT ![u] =
                                     [status |-> "returned", features |-> features]]
                             ELSE first
    /\ UNCHANGED <<extractor, requestVars, singletonVars, authVars>>

\* extractor.extract_features(u): a new list is filled from u and handed
\* back as an array; no field of the extractor is assigned
ExtractCall ==
    /\ \E u \in SessionUrls :
          \E features \in {ExtractFeaturesOf(extractor.class, u)} :
              /\ last' = [status |-> "returned", url |-> u,
                          features |-> features,
                          repeated |-> first[u] # NoValue]
              /\ first' = IF first[u] = NoValue
                             THEN [first EXCEPT ![u] =
                                     [status |-> "returned", features |-> features]]
                             ELSE first
    /\ UNCHANGED <<extractor, requestVars, singletonVars, authVars>>

SessionNext == ExtractCall

SessionSpec == SessionInit /\ [][SessionNext]_vars


(***************************************************************************)
(* Actions.  One request is followed from its URL to what the entry point  *)
(* that serves it returns.                                                 *)
(***************************************************************************)
Init ==
    /\ url \in Urls
    /\ RequestStart
    /\ ExtractorStart /\ SingletonStart /\ AuthStart

\* a direct call of PhishingPredictor._apply_heuristics(url)
ApplyHeuristicsCall ==
    /\ call = "idle"
    /\ call' = "_apply_heuristics"
    /\ heur' = ApplyHeuristics(url)
    /\ UNCHANGED <<url, vec, result, frame, explained>>
    /\ UNCHANGED <<sessionVars, singletonVars, authVars>>

\* PhishingPredictor.predict(url): the URL is rejected
PredictInvalid ==
    /\ call = "idle"
    /\ url = ""
    /\ call' = "predict"
    /\ result' = ErrorResult(url, "Invalid URL provided")
    /\ frame' = [status |-> "raised"]
    /\ UNCHANGED <<url, heur, vec, explained>>
    /\ UNCHANGED <<sessionVars, singletonVars, authVars>>

\* PhishingPredictor.predict(url): self.model.predict raises
PredictModelFails ==
    /\ call = "idle"
    /\ url # ""
    /\ call' = "predict"
    /\ result' = ErrorResult(url, "model")
    /\ frame' = [status |-> "raised"]
    /\ UNCHANGED <<url, heur, vec, explained>>
    /\ UNCHANGED <<sessionVars, singletonVars, authVars>>

\* PhishingPredictor.predict(url): _apply_heuristics raises
PredictHeuristicsFail ==
    /\ call = "idle"
    /\ url # ""
    /\ UrlParseRaises(url)
    /\ call' = "predict"
    /\ result' = ErrorResult(url, "Invalid IPv6 URL")
    /\ frame' = [status |-> "raised"]
    /\ UNCHANGED <<url, heur, vec, explained>>
    /\ UNCHANGED <<sessionVars, singletonVars, authVars>>

\* PhishingPredictor.predict(url): the model returns m and the result is built
PredictScores ==
    /\ call = "idle"
    /\ url # ""
    /\ ~UrlParseRaises(url)
    /\ call' = "predict"
    /\ \E features \in {BackendExtractFeatures(url)},
          scored \in {ApplyHeuristics(url)} :
          \E m \in ModelOutputs :
              \E locals \in {PredictFrame(features, m, scored.value)} :
                  /\ frame' = locals
                  /\ result' = PredictResult(url, locals)
    /\ UNCHANGED <<url, heur, vec, explained>>
    /\ UNCHANGED <<sessionVars, singletonVars, authVars>>

Predict == PredictInvalid \/ PredictModelFails \/ PredictHeuristicsFail \/ PredictScores

\* EnhancedPredictor.predict(url): the scaler or the model raises
EnhancedModelFails ==
    /\ call = "idle"
    /\ call' = "enhanced_predict"
    /\ \E now \in Timestamps : result' = EnhancedErrorResult(url, "model", now)
    /\ frame' = [status |-> "raised"]
    /\ UNCHANGED <<url, heur, vec, explained>>
    /\ UNCHANGED <<sessionVars, singletonVars, authVars>>

\* EnhancedPredictor.predict(url): the loaded model answers and the result is
\* built
EnhancedScores ==
    /\ call = "idle"
    /\ call' = "enhanced_predict"
    /\ \E features \in {AdvancedExtractFeatures(url)} :
          \E branch \in Branches, out \in ModelOutputs, now \in Timestamps :
              \E locals \in {EnhancedFrame(features, branch, out)} :
                  /\ frame' = locals
                  /\ result' = EnhancedResult(url, locals, now)
    /\ UNCHANGED <<url, heur, vec, explained>>
    /\ UNCHANGED <<sessionVars, singletonVars, authVars>>

EnhancedPredict == EnhancedModelFails \/ EnhancedScores

\* backend/app/features.py: URLFeatureExtractor().extract_features(url)
BackendExtract ==
    /\ call = "idle"
    /\ call' = "backend_extract"
    /\ vec' = [names |-> basic_feature_names,
               features |-> BackendExtractFeatures(url)]
    /\ UNCHANGED <<url, heur, result, frame, explained>>
    /\ UNCHANGED <<sessionVars, singletonVars, authVars>>

\* ml_engine/train_model.py prepare_features: the row extract_batch builds
\* for url
PrepareFeatures ==
    /\ call = "idle"
    /\ call' = "prepare_features"
    /\ vec' = [names |-> basic_feature_names,
               features |-> TrainExtractFeatures(url)]
    /\ UNCHANGED <<url, heur, result, frame, explained>>
    /\ UNCHANGED <<sessionVars, singletonVars, authVars>>

\* backend/app/advanced_feature_extractor.py: extract_features(url)
AdvancedExtract ==
    /\ call = "idle"
    /\ call' = "advanced_extract"
    /\ vec' = [names |-> advanced_feature_names,
               features |-> AdvancedExtractFeatures(url)]
    /\ UNCHANGED <<url, heur, result, frame, explained>>
    /\ UNCHANGED <<sessionVars, singletonVars, authVars>>

\* ml_engine/advanced_feature_extractor.py: extract_features(url)
ExtendedExtract ==
    /\ call = "idle"
    /\ call' = "extended_extract"
    /\ vec' = [names |-> extended_feature_names,
               features |-> ExtendedExtractFeatures(url)]
    /\ UNCHANGED <<url, heur, result, frame, explained>>
    /\ UNCHANGED <<sessionVars, singletonVars, authVars>>

\* EnhancedPredictor.explain(url): the model fails inside predict, which
\* returns its error dict; explain goes on with the label "error"
ExplainModelFails ==
    /\ call = "idle"
    /\ call' = "explain"
    /\ \E features \in {AdvancedExtractFeatures(url)}, now \in Timestamps :
          explained' = ExplainResult(url, EnhancedErrorResult(url, "model", now),
                                     features)
    /\ frame' = [status |-> "raised"]
    /\ UNCHANGED <<url, heur, vec, result>>
    /\ UNCHANGED <<sessionVars, singletonVars, authVars>>

\* EnhancedPredictor.explain(url): predict returns a result, the features are
\* extracted again as a dict, the indicators and the sentence are built
ExplainScores ==
    /\ call = "idle"
    /\ call' = "explain"
    /\ \E features \in {AdvancedExtractFeatures(url)} :
          \E branch \in Branches, out \in ModelOutputs, now \in Timestamps :
              \E locals \in {EnhancedFrame(features, branch, out)} :
                  /\ frame' = locals
                  /\ explained' = ExplainResult(url,
                                      EnhancedResult(url, locals, now), features)
    /\ UNCHANGED <<url, heur, vec, result>>
    /\ UNCHANGED <<sessionVars, singletonVars, authVars>>

Explain == ExplainModelFails \/ ExplainScores

Extract == BackendExtract \/ PrepareFeatures \/ AdvancedExtract \/ ExtendedExtract

Next == ApplyHeuristicsCall \/ Predict \/ EnhancedPredict \/ Explain \/ Extract

Spec == Init /\ [][Next]_vars

\* the threads of a process that call get_predictor()
SingletonInit ==
    /\ url = ""
    /\ RequestStart /\ ExtractorStart /\ SingletonStart /\ AuthStart

SingletonNext == GetPredictor

SingletonSpec == SingletonInit /\ [][SingletonNext]_vars

\* the account endpoints over either database
AuthInit ==
    /\ url = ""
    /\ RequestStart /\ ExtractorStart /\ SingletonStart
    /\ engine \in Engines
    /\ users = {}
    /\ sequence = 0
    /\ issued = {}
    /\ auth = NoValue

AuthNext == Register \/ Login \/ TokenExpires \/ GetMe \/ DeleteAccount

AuthSpec == AuthInit /\ [][AuthNext]_vars

(***************************************************************************)
(* Properties.                                                             *)
(***************************************************************************)
\* a predictor returned a non-error result in this state
Returned(entry) == call = entry /\ frame.status = "returned"
Predicted == Returned("predict") \/ Returned("enhanced_predict")

\* C1: in every non-error result of either predictor the label is 'phishing'
\* iff the final probability is at least 0.5, and 'legitimate' otherwise; a
\* probability of exactly 0.5 is labelled 'phishing'.
C1_LabelThreshold ==
    Predicted =>
        /\ result.prediction = "phishing" <=> frame.probability >= Pct(50)
        /\ result.prediction = "legitimate" <=> frame.probability < Pct(50)

\* C2: in every non-error result of either predictor the risk tier is 'low'
\* iff p < 0.3, 'medium' iff 0.3 <= p < 0.7 and 'high' iff p >= 0.7, and
\* _get_risk_level and the tiers of EnhancedPredictor.predict agree on p.
C2_RiskTiers ==
    Predicted =>
        /\ result.risk_level = "low" <=> frame.probability < Pct(30)
        /\ result.risk_level = "medium" <=>
              (Pct(30) <= frame.probability /\ frame.probability < Pct(70))
        /\ result.risk_level = "high" <=> frame.probability >= Pct(70)
        /\ GetRiskLevel(frame.probability) = EnhancedRiskLevel(frame.probability)

\* PhishingPredictor.predict returned a probability of exactly 0.3, tiered
\* 'medium'
C2_Witness ==
    /\ Returned("predict")
    /\ frame.probability = Pct(30)
    /\ result.risk_level = "medium"

\* C3: PhishingPredictor.predict's final probability is 0.6*m + 0.4*h, with m
\* the model output and h the heuristic score of the URL; the label, the
\* confidence and the risk level follow the blended value, not m; and the
\* blended value lies in [0,1].
C3_Blend ==
    Returned("predict") =>
        /\ frame.ml_probability \in ModelOutputs
        /\ frame.heuristic_score = ApplyHeuristics(url).value
        /\ frame.features = BackendExtractFeatures(url)
        /\ 10 * frame.probability
              = 6 * frame.ml_probability + 4 * frame.heuristic_score
        /\ 0 <= frame.probability /\ frame.probability <= One
        /\ result.prediction = "phishing" => frame.probability >= Pct(50)
        /\ result.prediction = "legitimate" => frame.probability <= Pct(50)
        /\ result.prediction \in {"phishing", "legitimate"}
        /\ frame.confidence \in {frame.probability, One - frame.probability}
        /\ frame.confidence >= Pct(50)
        /\ result.risk_level = "low" <=> frame.probability < Pct(30)
        /\ result.risk_level = "high" <=> frame.probability >= Pct(70)

\* the model output is above 0.5 and the blended value below it: the label
\* is 'legitimate'
C3_Witness ==
    /\ Returned("predict")
    /\ frame.ml_probability > Pct(50)
    /\ frame.heuristic_score < Pct(50)
    /\ frame.probability < Pct(50)
    /\ result.prediction = "legitimate"

\* C4: in every non-error result of either predictor the confidence is the
\* final probability p when the label is 'phishing' and 1 - p when it is
\* 'legitimate' (reported rounded to four decimals), and it lies in [0,1].
C4_Confidence ==
    Predicted =>
        /\ result.prediction = "phishing" =>
              /\ frame.confidence = frame.probability
              /\ result.confidence = Round4(frame.probability)
        /\ result.prediction = "legitimate" =>
              /\ frame.confidence = One - frame.probability
              /\ result.confidence = Round4(One - frame.probability)
        /\ result.prediction \in {"phishing", "legitimate"}
        /\ 0 <= frame.confidence /\ frame.confidence <= One
        /\ 0 <= result.confidence /\ result.confidence <= One

\* EnhancedPredictor.predict labelled a URL 'legitimate' at p = 0.12346 and
\* reports the confidence 0.8765
C4_Witness ==
    /\ Returned("enhanced_predict")
    /\ result.prediction = "legitimate"
    /\ frame.probability = 123460
    /\ frame.confidence = One - 123460
    /\ result.confidence = 876500

\* a direct call of _apply_heuristics returned a score in this state
Scored == call = "_apply_heuristics" /\ heur.status = "returned"

\* what the k-th rule block added to the score
Added(k) == heur.trail[k] - (IF k = 1 THEN 0 ELSE heur.trail[k - 1])

\* the weight of a rule: w if it fires, 0 otherwise
Weight(fires, w) == IF fires THEN w ELSE 0

\* the sum of the weights of the rules that fire on u, each rule read as the
\* scorer reads it
RuleSum(u) ==
    Weight(KeywordCount(phishing_keywords, Lower(u)) >= 3, Pct(40))
    + Weight(KeywordCount(phishing_keywords, Lower(u)) = 2, Pct(25))
    + Weight(KeywordCount(phishing_keywords, Lower(u)) = 1, Pct(10))
    + Weight(SearchQuad(u, FALSE), Pct(50))
    + Weight(HeurSuspiciousTld(Lower(u)), Pct(30))
    + Weight(Contains(u, "@"), Pct(40))
    + Weight(Count(UrlSplit(u).netloc, "-") >= 3, Pct(30))
    + Weight(Count(UrlSplit(u).netloc, "-") = 2, Pct(20))
    + Weight(\E i \in 1..Len(legitimate_domains) :
                ImpersonationMatch(legitimate_domains[i], Lower(u),
                                   UrlSplit(u).netloc), Pct(60))
    + Weight(Len(u) > 100, Pct(20))
    + Weight(NoHttpsLogin(u, Lower(u)), Pct(20))

\* C5: for every URL, _apply_heuristics returns min(1, S), S being the sum of
\* the weights of the rules that fire (one keyword tier at most, one hyphen
\* tier at most), so the value returned lies in [0,1].
C5_HeuristicSum ==
    call = "_apply_heuristics" =>
        /\ heur.status = "returned"
        /\ heur.value = Min(One, RuleSum(url))
        /\ 0 <= heur.value /\ heur.value <= One

\* the host of the URL (no userinfo, no port), case-folded
HostOf(u) == Lower(LenientNetloc(u))

\* the registrable domain of the URL: the label before the public suffix and
\* the suffix, case-folded
RegistrableDomain(u) ==
    IF TldExtract(u).suffix = "" THEN Lower(TldExtract(u).domain)
    ELSE Lower(TldExtract(u).domain \o "." \o TldExtract(u).suffix)

\* a listed brand occurs in the case-folded URL and the registrable domain
\* does not end with it
Impersonates(u) ==
    \E i \in 1..Len(legitimate_domains) :
        /\ Contains(Lower(u), legitimate_domains[i])
        /\ ~EndsWith(RegistrableDomain(u), legitimate_domains[i])

\* the host is the domain of the listed brand i or a subdomain of it
HostOfBrand(u, i) ==
    \/ HostOf(u) = legitimate_domains[i]
    \/ EndsWith(HostOf(u), "." \o legitimate_domains[i])

\* the host belongs to a listed brand and the URL names no other listed brand
OwnBrandOnly(u) ==
    \E i \in 1..Len(legitimate_domains) :
        /\ HostOfBrand(u, i)
        /\ \A j \in 1..Len(legitimate_domains) :
              Contains(Lower(u), legitimate_domains[j]) => j = i

\* C6: the impersonation rule fires iff a listed brand domain occurs in the
\* case-folded URL and the URL's registrable domain does not end with that
\* brand's domain; it never fires on a brand's own host (its domain or a
\* subdomain of it), whatever the host's letter case or port.
C6_ImpersonationRule ==
    Scored =>
        /\ Added(6) = Pct(60) <=> Impersonates(url)
        /\ OwnBrandOnly(url) => Added(6) = 0

\* the number of listed brands that match the rule's test on u
MatchingBrands(u) ==
    Cardinality({i \in 1..Len(legitimate_domains) :
        ImpersonationMatch(legitimate_domains[i], Lower(u), UrlSplit(u).netloc)})

\* C7: the impersonation rule adds 0 or exactly 0.6 to the score, however
\* many listed brands match.
C7_ImpersonationOnce ==
    Scored =>
        /\ Added(6) \in {0, Pct(60)}
        /\ Added(6) = Pct(60) <=> MatchingBrands(url) >= 1

\* two listed brands match and the rule added 0.6
C7_Witness ==
    /\ Scored
    /\ MatchingBrands(url) >= 2
    /\ Added(6) = Pct(60)

\* the top-level domain of the host: its last label, with the dot
HostTld(u) ==
    "." \o SplitOn(HostOf(u), ".")[Len(SplitOn(HostOf(u), "."))]

\* C8: the scorer adds 0.3 exactly when the top-level domain of the URL's host
\* is in the scorer's suspicious list, whether or not a path, a query or a
\* port follows the host.
C8_SuspiciousTld ==
    Scored => (Added(3) = Pct(30) <=> InList(HostTld(url), heur_suspicious_tlds))

\* C9: the training-side extractor builds, for every URL, the vector the
\* inference-side extractor builds for it.
C9_SameFeatures ==
    call = "prepare_features" => vec.features = BackendExtractFeatures(url)

\* the position of a feature name
IndexOf(names, name) == CHOOSE i \in 1..Len(names) : names[i] = name

\* the entry of the extracted vector that a name stands for
Feature(name) == vec.features[IndexOf(vec.names, name)]

BasicCalls == {"backend_extract", "prepare_features"}
AdvancedCalls == {"advanced_extract", "extended_extract"}

\* entries a..b of the extracted vector are all zero
ZeroBlock(a, b) == \A i \in a..b : vec.features[i] = 0

\* C11: when urlparse raises, extract_features still returns its vector: the
\* domain block is all zeros with the arity of the variant (6 basic, 7
\* advanced, 11 extended) and the lexical, statistical and entropy entries
\* are what the URL string alone gives.
C11_ZeroBlockOnParseFailure ==
    /\ (call \in BasicCalls /\ UrlParseRaises(url)) =>
          /\ Len(vec.features) = 20
          /\ ZeroBlock(14, 19)
          /\ SubSeq(vec.features, 1, 13) = BasicLexical(url)
          /\ vec.features[20] = ShannonEntropy(url)
          /\ Feature("url_length") = Len(url)
          /\ Feature("num_slashes") = Count(url, "/")
    /\ (call \in AdvancedCalls /\ UrlParseRaises(url)) =>
          /\ Len(vec.features) = IF call = "extended_extract" THEN 24 ELSE 20
          /\ ZeroBlock(14, Len(vec.features))
          /\ SubSeq(vec.features, 1, 8) = ExtractLexicalFeatures(url)
          /\ SubSeq(vec.features, 9, 13) = ExtractStatisticalFeatures(url)
          /\ Feature("url_length") = Len(url)
          /\ Feature("num_slashes") = Count(url, "/")

\* the backend extractor met a URL that urlparse rejects: zero domain block,
\* lexical entries kept
C11_Witness ==
    /\ call = "backend_extract"
    /\ UrlParseRaises(url)
    /\ ZeroBlock(14, 19)
    /\ Feature("url_length") = Len(url)
    /\ Feature("num_hyphens") = 1
    /\ Feature("has_https") = 1

\* urlparse finds neither a scheme nor a netloc in u
NoSchemeNoHost(u) ==
    ~UrlParseRaises(u) /\ SchemeEnd(u) = 0 /\ UrlSplit(u).netloc = ""

\* C12: for a URL with no scheme and no hostname, such as "???", the advanced
\* extractor returns a full-length vector whose seven domain-block entries
\* (domain_length .. query_length) are all zero.
C12_NoHostZeroBlock ==
    (call = "advanced_extract" /\ NoSchemeNoHost(url)) =>
        /\ Len(vec.features) = Len(vec.names)
        /\ ZeroBlock(IndexOf(vec.names, "domain_length"),
                     IndexOf(vec.names, "query_length"))

\* one of the two predict entry points has returned
PredictCalls == {"predict", "enhanced_predict"}

\* C13: PhishingPredictor.predict and EnhancedPredictor.predict reject an
\* empty URL: the result is an error result, never a scored 'phishing' or
\* 'legitimate' prediction.
C13_RejectsEmptyUrl ==
    (call \in PredictCalls /\ url = "") =>
        /\ result.prediction = "error"
        /\ frame.status = "raised"

\* a predict entry point caught an exception and returned its error result
Failed == call \in PredictCalls /\ frame.status = "raised"

\* C14: when something raises inside predict, the predictor returns a result
\* labelled 'error' with confidence 0.0 and an error message, and that result
\* carries no phishing probability, no safety verdict and no risk tier of a
\* scored result.
C14_ErrorResult ==
    Failed =>
        /\ result.prediction = "error"
        /\ result.confidence = 0
        /\ "error" \in DOMAIN result
        /\ "probability" \notin DOMAIN result
        /\ "is_safe" \notin DOMAIN result
        /\ "risk_level" \in DOMAIN result =>
              result.risk_level \notin {"low", "medium", "high"}

\* the fields of a successful result
SuccessFields ==
    {"url", "prediction", "confidence", "probability", "risk_level", "is_safe"}

\* C15: the error result of a predictor has the fields of a successful result
\* (url, prediction, confidence, probability, risk_level, is_safe), with
\* prediction = 'error'.
C15_ErrorShape ==
    Failed =>
        /\ result.prediction = "error"
        /\ SuccessFields \subseteq DOMAIN result

\* characters i..j of u are four decimal numbers, each in 0..255, joined by
\* dots, and no digit stands next to them
QuadAt(u, i, j) ==
    /\ LooksLikeIP(SplitOn(SubSeq(u, i, j), "."))
    /\ i = 1 \/ ~IsDigit(CharAt(u, i - 1))
    /\ j = Len(u) \/ ~IsDigit(CharAt(u, j + 1))

\* u contains a dotted quad of four decimal numbers in 0..255
ContainsQuad(u) ==
    \E i \in 1..Len(u) : \E j \in (i + 6)..Min(i + 14, Len(u)) : QuadAt(u, i, j)

\* C16: in the strict variant has_ip is 1 iff the URL contains a dotted quad
\* of four decimal numbers that are each in 0..255; 999.1.1.999 gets 0.
C16_StrictIp ==
    call \in BasicCalls => (Feature("has_ip") = 1 <=> ContainsQuad(url))

\* the HTTPS flag of the extracted vector
HttpsFlag ==
    IF call \in BasicCalls THEN Feature("has_https") ELSE Feature("uses_https")

\* C17: in every extractor the HTTPS flag is 1 iff the URL string begins with
\* the lowercase prefix 'https://'; 'HTTPS://...', 'http://...' and a URL that
\* holds 'https://' further on get 0.
C17_HttpsFlag ==
    call \in BasicCalls \cup AdvancedCalls =>
        /\ HttpsFlag \in {0, 1}
        /\ HttpsFlag = 1 <=> (Len(url) >= 8 /\ SubSeq(url, 1, 8) = "https://")
        /\ url \in {"HTTPS://example.com", "http://a.com/https://b.com"} =>
              HttpsFlag = 0

\* the advanced extractor met the upper-case scheme and left the flag at 0
C17_Witness ==
    /\ call = "advanced_extract"
    /\ url = "HTTPS://example.com"
    /\ Feature("uses_https") = 0

\* keyword k occurs somewhere in text
OccursIn(k, text) ==
    \E i \in 1..Len(text) :
        i + Len(k) - 1 <= Len(text) /\ SubSeq(text, i, i + Len(k) - 1) = k

\* the keywords of the 20-word list that occur in the case-folded URL
KeywordsFound(u) ==
    {k \in {suspicious_keywords[i] : i \in 1..Len(suspicious_keywords)} :
        OccursIn(k, Lower(u))}

\* C18: suspicious_keyword_count is the number of distinct keywords of the
\* 20-word list that occur in the case-folded URL: it is in 0..20, a repeated
\* keyword counts once, and folding the case of the URL does not change it.
C18_KeywordCount ==
    call \in AdvancedCalls =>
        /\ Feature("suspicious_keyword_count") = Cardinality(KeywordsFound(url))
        /\ Feature("suspicious_keyword_count") \in 0..20
        /\ Len(suspicious_keywords) = 20
        /\ ExtractLexicalFeatures(Lower(url))[7]
              = Feature("suspicious_keyword_count")
        /\ url = "http://secure-login-verify.com" =>
              Feature("suspicious_keyword_count") = 3

\* 'login' occurs three times, once in upper case, and is counted once
C18_Witness ==
    /\ call = "advanced_extract"
    /\ url = "http://LOGIN.example.com/login/login"
    /\ Feature("suspicious_keyword_count") = 1

\* log2 of the number of distinct characters of text, in millionths
MaxEntropy(text) == IF text = "" THEN 0 ELSE Log2(Cardinality(CharsOf(text)))

\* text is made of two distinct characters in equal numbers
TwoEqualHalves(text) ==
    /\ Cardinality(CharsOf(text)) = 2
    /\ \A c \in CharsOf(text) : 2 * Count(text, c) = Len(text)

\* the entropy entry of the extracted vector
EntropyFeature ==
    IF call \in BasicCalls THEN Feature("entropy")
    ELSE Feature("shannon_entropy")

\* C19: the entropy of a string is at least 0 and at most log2 of the number
\* of its distinct characters; it is 0 for the empty string and for a string
\* of one repeated character, and 1 for two distinct characters in equal
\* numbers.  Stated of the URL entropy of every extractor and of the domain
\* entropy of the advanced ones.
C19_EntropyBounds ==
    /\ call \in BasicCalls \cup AdvancedCalls =>
          /\ 0 <= EntropyFeature /\ EntropyFeature <= MaxEntropy(url)
          /\ url = "" => EntropyFeature = 0
          /\ Cardinality(CharsOf(url)) = 1 => EntropyFeature = 0
          /\ TwoEqualHalves(url) => EntropyFeature = One
    /\ (call \in AdvancedCalls /\ ~UrlParseRaises(url)) =>
          /\ 0 <= Feature("domain_entropy")
          /\ Feature("domain_entropy") <= MaxEntropy(TldExtract(url).domain)
          /\ Cardinality(CharsOf(TldExtract(url).domain)) = 1 =>
                Feature("domain_entropy") = 0

\* "abab" has entropy 1.0
C19_Witness ==
    /\ call = "backend_extract"
    /\ url = "abab"
    /\ Feature("entropy") = One

\* C20 as stated: in every vector of the 24-feature extractor
\* registrar_reputation = 2 - tld_category, for every URL.
C20_RegistrarMirrorAlways ==
    call = "extended_extract" =>
        Feature("registrar_reputation") = 2 - Feature("tld_category")

\* C20: in every vector of the 24-feature extractor for a URL that urlparse
\* accepts, registrar_reputation = 2 - tld_category (2 for a trusted TLD, 0
\* for a suspicious one, 1 otherwise); when urlparse raises, both entries
\* are 0, as is the whole domain block.
C20_RegistrarMirror ==
    call = "extended_extract" =>
        IF UrlParseRaises(url)
        THEN Feature("registrar_reputation") = 0 /\ Feature("tld_category") = 0
        ELSE /\ Feature("tld_category") \in {0, 1, 2}
             /\ Feature("registrar_reputation") = 2 - Feature("tld_category")
             /\ Feature("tld_category") = 0 <=>
                   InList("." \o TldExtract(url).suffix, trusted_tlds)

\* a URL on a suspicious TLD: tld_category 2, registrar_reputation 0
C20_Witness ==
    /\ call = "extended_extract"
    /\ ~UrlParseRaises(url)
    /\ Feature("tld_category") = 2
    /\ Feature("registrar_reputation") = 0

\* the k-th rule of the domain-age estimate holds of the URL (the fifth is
\* the default)
AgeRule(k) ==
    CASE k = 1 -> \E i \in 1..Len(well_known) :
                     OccursIn(well_known[i], Lower(TldExtract(url).domain))
      [] k = 2 -> \E i \in 1..Len(year_tokens) : OccursIn(year_tokens[i], url)
      [] k = 3 -> Len(TldExtract(url).domain) <= 4
      [] k = 4 -> Feature("domain_entropy") > 4 * One
      [] OTHER -> TRUE

\* the value of each rule: 1.0, 0.2, 0.3, 0.25, 0.5
AgeValues == << One, Pct(20), Pct(30), Pct(25), Pct(50) >>

\* the first rule that holds
FirstAgeRule == CHOOSE k \in 1..5 : AgeRule(k) /\ \A j \in 1..(k - 1) : ~AgeRule(j)

\* the 24-feature extractor returned a vector for a URL that urlparse accepts
ExtendedParsed == call = "extended_extract" /\ ~UrlParseRaises(url)

\* C21: _estimate_domain_age returns the value of the first rule that holds,
\* in the order well-known brand (1.0), year token 2020-2024 (0.2), domain of
\* at most 4 characters (0.3), domain entropy above 4.0 (0.25), default
\* (0.5); the result is one of these five values.
C21_DomainAgeOrder ==
    ExtendedParsed =>
        /\ Feature("domain_age_indicator") = AgeValues[FirstAgeRule]
        /\ Feature("domain_age_indicator")
              \in {One, Pct(20), Pct(30), Pct(25), Pct(50)}

\* the year-token rule and a later rule both hold, and the year token wins
C21_Witness ==
    /\ ExtendedParsed
    /\ ~AgeRule(1) /\ AgeRule(2)
    /\ AgeRule(3) \/ AgeRule(4)
    /\ Feature("domain_age_indicator") = Pct(20)

\* explain returned an explanation for a label of one of the two families
Explained == call = "explain" /\ explained.prediction \in {"phishing", "legitimate"}

\* the names of the indicators of each family
IndicatorFamily(label) ==
    IF label = "phishing"
    THEN {"IP Address in URL", "Suspicious Keywords", "No HTTPS", "Long URL",
          "High Entropy"}
    ELSE {"HTTPS Enabled", "Trusted TLD", "No Suspicious Keywords"}

\* the predicate of an indicator, on the feature map explain reports
IndicatorHolds(name) ==
    CASE name = "IP Address in URL" ->
            FeaturesGet(explained.features, "has_ip_address") = 1
      [] name = "Suspicious Keywords" ->
            FeaturesGet(explained.features, "suspicious_keyword_count") >= 2
      [] name = "No HTTPS" -> FeaturesGet(explained.features, "uses_https") = 0
      [] name = "Long URL" -> FeaturesGet(explained.features, "url_length") > 75
      [] name = "High Entropy" ->
            FeaturesGet(explained.features, "shannon_entropy") > Pct(450)
      [] name = "HTTPS Enabled" -> FeaturesGet(explained.features, "uses_https") = 1
      [] name = "Trusted TLD" -> FeaturesGet(explained.features, "tld_category") = 0
      [] name = "No Suspicious Keywords" ->
            FeaturesGet(explained.features, "suspicious_keyword_count") = 0
      [] OTHER -> FALSE

\* the indicator a reason of the sentence names (a reason that names none
\* stands for itself)
IndicatorNamed(reason) ==
    CASE reason = "IP address in URL" -> "IP Address in URL"
      [] reason = "no suspicious keywords" -> "No Suspicious Keywords"
      [] EndsWith(reason, " suspicious keywords")
            /\ reason # "no suspicious keywords" -> "Suspicious Keywords"
      [] reason = "no HTTPS encryption" -> "No HTTPS"
      [] reason = "HTTPS encryption" -> "HTTPS Enabled"
      [] reason = "trusted domain" -> "Trusted TLD"
      [] OTHER -> reason

TopIndicatorNames ==
    {explained.top_indicators[i].feature : i \in 1..Len(explained.top_indicators)}

ReasonsNamed ==
    {IndicatorNamed(explained.explanation.reasons[i]) :
        i \in 1..Len(explained.explanation.reasons)}

\* C22: explain returns at most 5 top indicators, each with a true predicate
\* and each of the family of the predicted label, and the reasons of the
\* explanation sentence name exactly the indicators of top_indicators.
C22_IndicatorsAndSentence ==
    Explained =>
        /\ Len(explained.top_indicators) <= 5
        /\ \A name \in TopIndicatorNames :
              IndicatorHolds(name) /\ name \in IndicatorFamily(explained.prediction)
        /\ ReasonsNamed = TopIndicatorNames

\* the part of C22 about the indicators alone
C22_IndicatorsOnly ==
    Explained =>
        /\ Len(explained.top_indicators) <= 5
        /\ \A name \in TopIndicatorNames :
              IndicatorHolds(name) /\ name \in IndicatorFamily(explained.prediction)
        /\ \A name \in IndicatorFamily(explained.prediction) :
              IndicatorHolds(name) => name \in TopIndicatorNames

\* explain reported the trusted top-level domain, as an indicator or as a
\* reason of the sentence
TrustedReported ==
    /\ call = "explain"
    /\ \/ "Trusted TLD" \in TopIndicatorNames
       \/ \E i \in 1..Len(explained.explanation.reasons) :
              explained.explanation.reasons[i] = "trusted domain"

\* C29: explain reports the 'Trusted TLD' indicator and the 'trusted domain'
\* reason only for a URL whose suffix is in the trusted list (.com, .org,
\* .net, .edu, .gov, .mil), never for a URL whose domain decomposition failed
\* or whose result is an error.
C29_TrustedTldOnlyWhenTrusted ==
    TrustedReported =>
        /\ explained.prediction # "error"
        /\ ~UrlParseRaises(url)
        /\ InList("." \o TldExtract(url).suffix, trusted_tlds)

\* the part of C29 that holds: a decomposed URL of a non-error result is
\* reported trusted only with a suffix of the trusted list
C29_TrustedWhenDecomposed ==
    TrustedReported /\ ~UrlParseRaises(url) =>
        InList("." \o TldExtract(url).suffix, trusted_tlds)

Done == {t \in Threads : pc[t] = "done"}

\* C24: across any interleaving of concurrent get_predictor() calls at most
\* one PhishingPredictor is ever constructed, and every call returns that
\* same instance.
C24_SingleInstance ==
    /\ Cardinality(constructed) <= 1
    /\ \A t \in Done : got[t] \in constructed
    /\ \A t1, t2 \in Done : got[t1] = got[t2]

\* what holds of every interleaving: a call returns a constructed predictor,
\* and calls that begin after an assignment construct nothing
C24_ReturnsAPredictor ==
    /\ \A t \in Done : got[t] \in constructed
    /\ predictor_instance # None => predictor_instance \in constructed
    /\ Cardinality(constructed) <= NumThreads

ReportedTier(p) == IF p < Pct(30) THEN "low" ELSE IF p < Pct(70) THEN "medium" ELSE "high"

\* C26: in every non-error result the label and the risk level agree with
\* the reported 'probability' (rounded to 4 decimals): the risk level is the
\* tier of the reported value under 0.3 / 0.7, and the label is the side of
\* 0.5 on which the reported value lies.
C26_AgreesWithReported ==
    Predicted =>
        /\ result.risk_level = ReportedTier(result.probability)
        /\ result.probability > Pct(50) => result.prediction = "phishing"
        /\ result.probability < Pct(50) => result.prediction = "legitimate"

\* the label half of C26: a reported value off 0.5 has the label of its side
C26_LabelSide ==
    Predicted =>
        /\ result.probability > Pct(50) => result.prediction = "phishing"
        /\ result.probability < Pct(50) => result.prediction = "legitimate"

\* C28: the 24-feature extractor extends the 20-feature one: for every URL,
\* parse failures included, the first 20 entries of the ml_engine
\* extract_features are the backend's 20 entries, and the first 20 feature
\* names are the same.
C28_ExtendsTwenty ==
    call = "extended_extract" =>
        /\ Len(vec.features) = 24
        /\ SubSeq(vec.features, 1, 20) = AdvancedExtractFeatures(url)
        /\ SubSeq(vec.names, 1, 20) = advanced_feature_names

\* the 24-feature extractor answered for a URL that decomposes into a domain
\* and a suffix, with its estimates after the twenty
C28_Witness ==
    /\ call = "extended_extract"
    /\ ~UrlParseRaises(url)
    /\ TldExtract(url).suffix # ""
    /\ vec.features[21] # 0

\* characters i..j of u are four runs of one to three digits joined by dots
LenientQuadAt(u, i, j) ==
    /\ IsDigit(CharAt(u, i)) /\ IsDigit(CharAt(u, j))
    /\ Bind(SplitOn(SubSeq(u, i, j), "."), LAMBDA labels :
          /\ Len(labels) = 4
          /\ \A k \in 1..4 : /\ Len(labels[k]) \in 1..3
                             /\ AllDigits(labels[k], 1, Len(labels[k])))

\* a decimal number in 0..255 written without a leading zero
PlainOctet(label) ==
    IsIPv4Octet(label) /\ (Len(label) = 1 \/ CharAt(label, 1) # "0")

\* every dotted quad of u consists of octets in 0..255 without leading zeros
PlainQuadsOnly(u) ==
    \A i \in 1..Len(u) : \A j \in (i + 6)..Min(i + 14, Len(u)) :
        LenientQuadAt(u, i, j) =>
            \A k \in 1..4 : PlainOctet(SplitOn(SubSeq(u, i, j), ".")[k])

\* u holds a dotted quad
HasQuad(u) ==
    \E i \in 1..Len(u) : \E j \in (i + 6)..Min(i + 14, Len(u)) :
        LenientQuadAt(u, i, j)

\* C30: the strict detector implies the lenient one: whenever
\* URLFeatureExtractor sets has_ip = 1, _has_ip_address is true of the URL
\* and the IP rule of the heuristic scorer adds its 0.5; and the two
\* detectors agree on every URL whose dotted quads consist of octets in
\* 0..255 without leading zeros.
C30_StrictImpliesLenient ==
    /\ call \in BasicCalls /\ Feature("has_ip") = 1 => HasIpAddress(url)
    /\ call \in AdvancedCalls /\ SearchQuad(url, TRUE) =>
          Feature("has_ip_address") = 1
    /\ Scored /\ SearchQuad(url, TRUE) => Added(2) = Pct(50)
    /\ call \in BasicCalls /\ PlainQuadsOnly(url) =>
          (Feature("has_ip") = 1 <=> HasIpAddress(url))
    /\ call \in AdvancedCalls /\ PlainQuadsOnly(url) =>
          (Feature("has_ip_address") = 1 <=> SearchQuad(url, TRUE))

\* the strict detector found the address of a URL whose quads are all plain
C30_Witness ==
    /\ call \in BasicCalls
    /\ Feature("has_ip") = 1
    /\ HasQuad(url) /\ PlainQuadsOnly(url)

\* where the detectors part: a quad with an octet above 255 or with a
\* leading zero is an address to the lenient detector only
C30_DetectorsPart ==
    call \in BasicCalls /\ url \in {"http://300.300.300.300/", "http://01.02.03.04/"} =>
        Feature("has_ip") = 0 /\ HasIpAddress(url)

\* C27: after delete_account removes user U, a token issued to U
\* authenticates no user in any later state: get_current_active_user rejects
\* it with 401 after every later sequence of register, login and delete,
\* also when new accounts are registered after the deletion.
C27_DeletedTokenRejected ==
    auth # NoValue /\ auth.account_deleted => auth.answer.status = 401

\* with PostgreSQL's sequence the token of a deleted account stays rejected
C27_RejectedWithSequence ==
    engine = "postgresql" /\ auth # NoValue /\ auth.account_deleted
        => auth.answer.status = 401

====
